---------------------------- MODULE Spec2Model ----------------------------
(***************************************************************************)
(* Model of the Studio Velocity automation: automation.py (schedule        *)
(* retrieval, filtering, detail enrichment, spot extraction) and           *)
(* telegram_notification.py (summary formatting, message splitting and     *)
(* delivery).                                                              *)
(*                                                                         *)
(* Text is modelled as a sequence of one-character strings, so that        *)
(* lengths, slices, line splitting and joins are computed character by     *)
(* character as Python computes them.  An optional value (one that may be  *)
(* None or absent) is <<>> for None and <<v>> for the value v.             *)
(***************************************************************************)
EXTENDS Integers, Sequences, FiniteSets, TLC

VARIABLES
    pc,              \* position of the operation being modelled
    message,         \* _split_message / send_telegram_message: message
    limit,           \* _split_message: limit
    chunks,          \* _split_message: the returned list
    raw_events,      \* filter_events: raw_events (the schedule)
    filtered,        \* filter_events: the returned list, or an Error
    event_payload,   \* extract_available_spots: event_payload
    available_spots, \* extract_available_spots: the returned list
    token,           \* send_telegram_message: token
    chat_id,         \* send_telegram_message: chat_id
    session,         \* the session argument: None, or the caller's session
    internal_session,\* state of the session the call uses: None before it exists
    requests,        \* the HTTP requests issued so far, in order
    responses,       \* the response bodies received so far, in order
    result,          \* what the call returned or raised; Running while it runs
    all_spots,       \* collect_available_spots: all_spots
    summary          \* the lines format_spot_summary made of the returned spots

splitVars == <<message, limit, chunks>>
filterVars == <<raw_events, filtered>>
extractVars == <<event_payload, available_spots>>
sendVars == <<token, chat_id, responses>>
httpVars == <<session, internal_session, requests, result>>
runVars == <<all_spots, summary>>

vars == <<pc, splitVars, filterVars, extractVars, sendVars, httpVars, runVars>>

\* An optional value: None, or Some(v).
None == <<>>
Some(v) == <<v>>

\* What a call has come to: still running, returned a value, or raised.
Running == [kind |-> "running", error |-> "", value |-> <<>>]
Returned(v) == [kind |-> "returned", error |-> "", value |-> v]
Raised(e) == [kind |-> "raised", error |-> e, value |-> <<>>]

(***************************************************************************)
(* Bounds of the model.                                                    *)
(***************************************************************************)
MaxMsgLen == 4
MaxLimit == 3

(***************************************************************************)
(* telegram_notification.py: constants.                                    *)
(***************************************************************************)
TELEGRAM_MESSAGE_LIMIT == 4096

LF == "\n"
CR == "\r"

\* The characters messages are drawn from: two letters and the two line
\* breaks str.splitlines recognises among them.
Alphabet == {"a", "b", LF, CR}

Messages == UNION {[1..n -> Alphabet] : n \in 0..MaxMsgLen}

\* The limits _split_message is called with: small ones, which the bounded
\* messages exceed, and the default of the keyword argument.
Limits == (1..MaxLimit) \cup {TELEGRAM_MESSAGE_LIMIT}

(***************************************************************************)
(* Python built-ins used by _split_message.                                *)
(***************************************************************************)

\* s[lo:hi] with 0-based, end-exclusive indices, clipped to the string.
Slice(s, lo, hi) ==
    LET top == IF hi < Len(s) THEN hi ELSE Len(s)
    IN  IF lo >= top THEN <<>> ELSE [k \in 1..(top - lo) |-> s[lo + k]]

\* str.splitlines(): lines end at "\n", "\r" or "\r\n"; the line breaks are
\* not kept, and a final line break opens no empty last line.
RECURSIVE SplitLinesFrom(_, _, _)
SplitLinesFrom(s, i, cur) ==
    IF i > Len(s)
    THEN IF cur = <<>> THEN <<>> ELSE <<cur>>
    ELSE IF s[i] = LF
         THEN <<cur>> \o SplitLinesFrom(s, i + 1, <<>>)
         ELSE IF s[i] = CR
              THEN IF i + 1 <= Len(s) /\ s[i + 1] = LF
                   THEN <<cur>> \o SplitLinesFrom(s, i + 2, <<>>)
                   ELSE <<cur>> \o SplitLinesFrom(s, i + 1, <<>>)
              ELSE SplitLinesFrom(s, i + 1, Append(cur, s[i]))

splitlines(s) == SplitLinesFrom(s, 1, <<>>)

\* "\n".join(lines)
RECURSIVE JoinLines(_)
JoinLines(lines) ==
    IF lines = <<>> THEN <<>>
    ELSE IF Len(lines) = 1 THEN lines[1]
         ELSE lines[1] \o <<LF>> \o JoinLines(Tail(lines))

RECURSIVE HardSlicesOneOver(_, _, _)
HardSlicesOneOver(line, start, lim) ==
    IF start >= Len(line) THEN <<>>
    ELSE <<Slice(line, start, start + lim + 1)>>
         \o HardSlicesOneOver(line, start + lim + 1, lim)

\* [line[start : start + limit] for start in range(0, line_len, limit)]
RECURSIVE HardSlices(_, _, _)
HardSlices(line, start, lim) ==
    IF start >= Len(line) THEN <<>>
    ELSE <<Slice(line, start, start + lim)>> \o HardSlices(line, start + lim, lim)

(***************************************************************************)
(* _split_message: the loop over message.splitlines().  st is the loop's   *)
(* state: chunks, current_lines, current_len.                              *)
(***************************************************************************)
SplitLineStep(st, line, lim) ==
    LET line_len == Len(line) IN
    IF line_len > lim
    THEN LET flushed == IF st.current_lines # <<>>
                        THEN Append(st.chunks, JoinLines(st.current_lines))
                        ELSE st.chunks
         IN  [chunks |-> flushed \o HardSlices(line, 0, lim),
              current_lines |-> IF st.current_lines # <<>> THEN <<>> ELSE st.current_lines,
              current_len |-> IF st.current_lines # <<>> THEN 0 ELSE st.current_len]
    ELSE LET additional == IF st.current_lines = <<>> THEN line_len ELSE line_len + 1 IN
         IF st.current_lines # <<>> /\ st.current_len + additional > lim
         THEN [chunks |-> Append(st.chunks, JoinLines(st.current_lines)),
               current_lines |-> <<line>>,
               current_len |-> line_len]
         ELSE [chunks |-> st.chunks,
               current_lines |-> Append(st.current_lines, line),
               current_len |-> IF st.current_lines # <<>>
                               THEN st.current_len + 1 + line_len
                               ELSE line_len]

RECURSIVE SplitLoop(_, _, _, _)
SplitLoop(lines, i, st, lim) ==
    IF i > Len(lines) THEN st
    ELSE SplitLoop(lines, i + 1, SplitLineStep(st, lines[i], lim), lim)

_split_message(msg, lim) ==
    IF Len(msg) <= lim
    THEN <<msg>>
    ELSE LET st == SplitLoop(splitlines(msg), 1,
                             [chunks |-> <<>>, current_lines |-> <<>>, current_len |-> 0],
                             lim)
         IN  IF st.current_lines # <<>>
             THEN Append(st.chunks, JoinLines(st.current_lines))
             ELSE st.chunks

(***************************************************************************)
(* The parts of the state an operation does not use stay empty.            *)
(***************************************************************************)
SplitIdle == message = <<>> /\ limit = 0 /\ chunks = <<>>
FilterIdle == raw_events = <<>> /\ filtered = <<>>
ExtractIdle == event_payload = <<>> /\ available_spots = <<>>
SendIdle == token = <<>> /\ chat_id = <<>> /\ responses = <<>>
HttpIdle ==
    session = "None" /\ internal_session = "None" /\ requests = <<>> /\ result = Running
RunIdle == all_spots = <<>> /\ summary = <<>>

(***************************************************************************)
(* Specification of _split_message: the message and the limit are drawn    *)
(* from the bounded sets and the function is applied once.                 *)
(***************************************************************************)
SplitInit ==
    /\ pc = "split_call"
    /\ message \in Messages
    /\ limit \in Limits
    /\ chunks = <<>>
    /\ FilterIdle /\ ExtractIdle /\ SendIdle /\ HttpIdle /\ RunIdle

SplitMessage ==
    /\ pc = "split_call"
    /\ chunks' = _split_message(message, limit)
    /\ pc' = "split_done"
    /\ UNCHANGED <<message, limit, filterVars, extractVars, sendVars, httpVars, runVars>>

SplitNext == SplitMessage

SplitSpec == SplitInit /\ [][SplitNext]_vars

\* C1: splitting a message with _split_message and rejoining the returned
\* chunks with newlines reproduces the original message exactly.
C1_RoundTrip ==
    pc = "split_done" => JoinLines(chunks) = message

(***************************************************************************)
(* send_telegram_message.  The call splits the message with the default    *)
(* limit, TELEGRAM_MESSAGE_LIMIT; the model lets that default range over   *)
(* Limits, so that the bounded messages exceed it and several chunks are   *)
(* delivered.  Each POST ends in one of PostOutcomes: the response is a    *)
(* success, raise_for_status raises HTTPError, or the transport raises.    *)
(***************************************************************************)
Tokens == {<<>>, <<"t">>}
ChatIds == {<<>>, <<"c">>}
\* The session argument: None, or a session of the caller's.
Sessions == {"None", "caller"}
PostOutcomes == {"ok", "http_error", "connection_error"}

\* The JSON body of a successful sendMessage response: the message the
\* server stored, numbered in the order the requests arrived.
TelegramResponse(n, payload) == [message_id |-> n, text |-> payload.text]

\* session or requests.Session()
AcquireSession(sess) == IF sess = "None" THEN "open" ELSE "caller_open"

\* if session is None: internal_session.close()
ReleaseSession(sess, state) == IF sess = "None" THEN "closed" ELSE state

\* return responses[-1] if responses else {}
FirstResponse(rs) == IF rs # <<>> THEN rs[1] ELSE <<>>
LastResponse(rs) == IF rs # <<>> THEN rs[Len(rs)] ELSE <<>>

SendInit ==
    /\ pc = "send_call"
    /\ token \in Tokens
    /\ chat_id \in ChatIds
    /\ message \in Messages
    /\ limit \in Limits
    /\ session \in Sessions
    /\ chunks = <<>>
    /\ responses = <<>>
    /\ internal_session = "None"
    /\ requests = <<>>
    /\ result = Running
    /\ FilterIdle /\ ExtractIdle /\ RunIdle

\* Lines 302-316: the two checks, then the split and the session.
SendCall ==
    /\ pc = "send_call"
    /\ IF token = <<>> \/ chat_id = <<>>
       THEN /\ pc' = "send_raised"
            /\ result' = Raised("ValueError")
            /\ UNCHANGED <<chunks, responses, internal_session>>
       ELSE /\ pc' = "send_loop"
            /\ chunks' = _split_message(message, limit)
            /\ responses' = <<>>
            /\ internal_session' = AcquireSession(session)
            /\ UNCHANGED result
    /\ UNCHANGED <<message, limit, token, chat_id, session, requests,
                   filterVars, extractVars, runVars>>

\* Lines 319-343: one iteration of the loop, with the finally clause when
\* the iteration raises.
SendPost ==
    /\ pc = "send_loop"
    /\ Len(requests) < Len(chunks)
    /\ LET payload == [chat_id |-> chat_id, text |-> chunks[Len(requests) + 1]] IN
       /\ requests' = Append(requests, payload)
       /\ \E outcome \in PostOutcomes :
            IF outcome = "ok"
            THEN /\ responses' = Append(responses,
                                        TelegramResponse(Len(requests) + 1, payload))
                 /\ UNCHANGED <<pc, result, internal_session>>
            ELSE /\ pc' = "send_raised"
                 /\ result' = IF outcome = "http_error" THEN Raised("HTTPError")
                                                        ELSE Raised("ConnectionError")
                 /\ internal_session' = ReleaseSession(session, internal_session)
                 /\ UNCHANGED responses
    /\ UNCHANGED <<message, limit, chunks, token, chat_id, session,
                   filterVars, extractVars, runVars>>

\* Lines 341-345: the loop is over; the finally clause and the return.
SendReturn ==
    /\ pc = "send_loop"
    /\ Len(requests) = Len(chunks)
    /\ internal_session' = ReleaseSession(session, internal_session)
    /\ result' = Returned(LastResponse(responses))
    /\ pc' = "send_returned"
    /\ UNCHANGED <<message, limit, chunks, token, chat_id, session, requests,
                   responses, filterVars, extractVars, runVars>>

SendNext == SendCall \/ SendPost \/ SendReturn

SendSpec == SendInit /\ [][SendNext]_vars

\* C2: every chunk returned by _split_message is at most limit characters
\* long, for every message and every limit >= 1, and so is the text of every
\* request send_telegram_message posts.
C2_ChunkWithinLimit ==
    /\ \A i \in 1..Len(chunks) : Len(chunks[i]) <= limit
    /\ \A i \in 1..Len(requests) : Len(requests[i].text) <= limit

\* A message over the limit was split into a chunk packing two lines and a
\* line longer than the limit that was sliced, and all of it was posted.
C2_Witness ==
    /\ pc = "send_returned"
    /\ Len(message) > limit
    /\ \E i \in 1..Len(requests) : \E k \in 1..Len(requests[i].text) :
          requests[i].text[k] = LF
    /\ \E i \in 1..Len(splitlines(message)) : Len(splitlines(message)[i]) > limit

\* C8: the chunks are posted one request per chunk, in chunk order; when
\* every delivery succeeds the call returns the response of the last chunk;
\* when the delivery of chunk k fails the call raises and no later chunk
\* is posted; with an empty token or chat id the call raises before any
\* request.
C8_SequentialDelivery ==
    /\ Len(requests) <= Len(chunks)
    /\ \A i \in 1..Len(requests) : requests[i].text = chunks[i]
    /\ pc = "send_returned" =>
          /\ Len(requests) = Len(chunks)
          /\ result = Returned(TelegramResponse(Len(chunks),
                                [chat_id |-> chat_id, text |-> chunks[Len(chunks)]]))
    /\ pc = "send_raised" /\ result.error # "ValueError" =>
          /\ Len(requests) = Len(responses) + 1
          /\ \A i \in 1..Len(responses) : responses[i].text = chunks[i]
    /\ token = <<>> \/ chat_id = <<>> =>
          /\ requests = <<>>
          /\ pc \in {"send_call", "send_raised"}
          /\ pc = "send_raised" => result = Raised("ValueError")

\* Three chunks were delivered and the call returned.
C8_Witness ==
    /\ pc = "send_returned"
    /\ Len(chunks) >= 3
    /\ Len(requests) = Len(chunks)

(***************************************************************************)
(* automation.py: dates and times.  A start_time is the text the API       *)
(* returns, "YYYY-MM-DDTHH:MM:SS-03:00"; a datetime is the record          *)
(* datetime.fromisoformat builds from it.                                  *)
(***************************************************************************)
DigitChars == <<"0", "1", "2", "3", "4", "5", "6", "7", "8", "9">>
IsDigit(c) == \E k \in 1..10 : DigitChars[k] = c
DigitVal(c) == (CHOOSE k \in 1..10 : DigitChars[k] = c) - 1
Digits2(n) == <<DigitChars[(n \div 10) + 1], DigitChars[(n % 10) + 1]>>
Digits4(n) == Digits2(n \div 100) \o Digits2(n % 100)
Num2(s, i) == 10 * DigitVal(s[i]) + DigitVal(s[i + 1])
Num4(s, i) == 100 * Num2(s, i) + Num2(s, i + 2)

IsLeap(y) == (y % 4 = 0) /\ ((y % 100 # 0) \/ (y % 400 = 0))
DaysInMonth(y, m) ==
    IF m = 2 THEN (IF IsLeap(y) THEN 29 ELSE 28)
    ELSE IF m \in {4, 6, 9, 11} THEN 30 ELSE 31

RECURSIVE DaysBeforeMonth(_, _)
DaysBeforeMonth(y, m) ==
    IF m = 1 THEN 0 ELSE DaysBeforeMonth(y, m - 1) + DaysInMonth(y, m - 1)

\* date.toordinal(): 1 is 0001-01-01.
ToOrdinal(d) ==
    LET y == d[1] - 1
    IN  y * 365 + (y \div 4) - (y \div 100) + (y \div 400)
        + DaysBeforeMonth(d[1], d[2]) + d[3]

\* datetime.date(), datetime.weekday() (Monday is 0), and the time of day
\* start_dt.timetz().replace(tzinfo=None), as seconds since midnight.
DateOf(dt) == <<dt.year, dt.month, dt.day>>
Weekday(dt) == (ToOrdinal(DateOf(dt)) + 6) % 7
TimeOfDay(dt) == dt.hour * 3600 + dt.minute * 60 + dt.second

\* datetime.isoformat() of a datetime with a whole-hour negative offset.
IsoFormat(dt) ==
    Digits4(dt.year) \o <<"-">> \o Digits2(dt.month) \o <<"-">> \o Digits2(dt.day)
    \o <<"T">> \o Digits2(dt.hour) \o <<":">> \o Digits2(dt.minute)
    \o <<":">> \o Digits2(dt.second)
    \o <<"-">> \o Digits2(dt.offset_hours) \o <<":", "0", "0">>

\* The text is of the form the API returns and names a date and a time
\* that exist.
IsIsoDateTime(s) ==
    /\ Len(s) = 25
    /\ \A i \in {1, 2, 3, 4, 6, 7, 9, 10, 12, 13, 15, 16, 18, 19, 21, 22, 24, 25} :
          IsDigit(s[i])
    /\ s[5] = "-" /\ s[8] = "-" /\ s[11] = "T" /\ s[14] = ":" /\ s[17] = ":"
    /\ s[20] = "-" /\ s[23] = ":"
    /\ Num4(s, 1) >= 1
    /\ Num2(s, 6) \in 1..12
    /\ Num2(s, 9) \in 1..DaysInMonth(Num4(s, 1), Num2(s, 6))
    /\ Num2(s, 12) \in 0..23 /\ Num2(s, 15) \in 0..59 /\ Num2(s, 18) \in 0..59
    /\ Num2(s, 21) \in 0..23 /\ Num2(s, 24) = 0

\* datetime.fromisoformat(raw_start); of the forms it accepts the model has
\* the one the API returns, and every other text raises ValueError.
FromIsoFormat(s) ==
    IF IsIsoDateTime(s)
    THEN Returned([year |-> Num4(s, 1), month |-> Num2(s, 6), day |-> Num2(s, 9),
                   hour |-> Num2(s, 12), minute |-> Num2(s, 15),
                   second |-> Num2(s, 18), offset_hours |-> Num2(s, 21)])
    ELSE Raised("ValueError")

\* automation._parse_start_time
automation_parse_start_time(raw_start) == FromIsoFormat(raw_start)

\* holidays.country_holidays("BR", subdiv="SP", years={year}): the public
\* holidays of the state of Sao Paulo; the movable one (Good Friday) is
\* given for 2025, the year the model's dates are in.
BrHolidays(estado, year) ==
    {<<year, 1, 1>>, <<year, 4, 21>>, <<year, 5, 1>>, <<year, 9, 7>>,
     <<year, 10, 12>>, <<year, 11, 2>>, <<year, 11, 15>>, <<year, 11, 20>>,
     <<year, 12, 25>>}
    \cup (IF estado = "SP" THEN {<<year, 7, 9>>} ELSE {})
    \cup (IF year = 2025 THEN {<<2025, 4, 18>>} ELSE {})

classify_event_day(start_dt, estado) ==
    IF DateOf(start_dt) \in BrHolidays(estado, start_dt.year) THEN "feriado"
    ELSE IF Weekday(start_dt) >= 5 THEN "final_de_semana"
    ELSE "dia_de_semana"

\* time(hour=19)
EveningCutoff == 19 * 3600

\* The weekday rule of filter_events: the entry is skipped.
BeforeCutoff(start_dt) ==
    classify_event_day(start_dt, "SP") = "dia_de_semana"
    /\ TimeOfDay(start_dt) < EveningCutoff
AtOrBeforeCutoff(start_dt) ==
    classify_event_day(start_dt, "SP") = "dia_de_semana"
    /\ TimeOfDay(start_dt) <= EveningCutoff

\* event.get("closed_at") is not None
NeverClosed(event) == FALSE
IsClosed(event) == event.closed_at # None

\* ScheduleEvent(token=event["token"], start_time=start_dt)
ScheduleEvent(tok, start_dt) == [token |-> tok, start_time |-> start_dt]

(***************************************************************************)
(* filter_events.  A schedule entry has the fields instructor, closed_at   *)
(* (optional), start_time (optional text) and token.  acc is the list      *)
(* filtered; a start_time that does not parse ends the call with           *)
(* ValueError.                                                             *)
(***************************************************************************)
RECURSIVE FilterLoop(_, _, _, _)
FilterLoop(events, i, acc, instructor_id) ==
    IF i > Len(events) THEN Returned(acc)
    ELSE LET event == events[i] IN
         IF event.instructor # instructor_id
         THEN FilterLoop(events, i + 1, acc, instructor_id)
         ELSE IF IsClosed(event)
         THEN FilterLoop(events, i + 1, acc, instructor_id)
         ELSE IF event.start_time = None \/ event.start_time = Some(<<>>)
         THEN FilterLoop(events, i + 1, acc, instructor_id)
         ELSE LET parsed == automation_parse_start_time(event.start_time[1]) IN
              IF parsed.kind = "raised" THEN parsed
              ELSE IF AtOrBeforeCutoff(parsed.value)
              THEN FilterLoop(events, i + 1, acc, instructor_id)
              ELSE FilterLoop(events, i + 1,
                              Append(acc, ScheduleEvent(event.token, parsed.value)),
                              instructor_id)

\* instructor_id: int = 525
DefaultInstructorId == 525

filter_events(events, instructor_id) == FilterLoop(events, 1, <<>>, instructor_id)

(***************************************************************************)
(* The schedule entries of the model: the target instructor and another,   *)
(* open and closed, on a working Friday around the cutoff, on a Sunday and *)
(* on a holiday that falls on a Thursday, with a start_time that is        *)
(* missing, empty or not a timestamp.                                      *)
(***************************************************************************)
MaxEvents == 2

At(d, h, mi, sec) ==
    [year |-> d[1], month |-> d[2], day |-> d[3], hour |-> h, minute |-> mi,
     second |-> sec, offset_hours |-> 3]

\* A working Friday, a Sunday and a holiday that falls on a Thursday.
Friday == <<2025, 11, 14>>
Sunday == <<2025, 11, 16>>
HolidayThursday == <<2025, 11, 20>>

StartTimes ==
    {At(Friday, 18, 59, 59), At(Friday, 19, 0, 0), At(Friday, 19, 0, 1),
     At(Sunday, 8, 0, 0), At(HolidayThursday, 19, 0, 0)}

RawStartTimes ==
    {None, Some(<<>>), Some(<<"b", "a", "d">>)}
    \cup {Some(IsoFormat(dt)) : dt \in StartTimes}

EventTokens == {"e1", "e2"}

ScheduleEntries ==
    [instructor : {DefaultInstructorId, 999},
     closed_at : {None, Some(IsoFormat(At(Friday, 12, 0, 0)))},
     start_time : RawStartTimes,
     token : EventTokens]

Schedules == UNION {[1..n -> ScheduleEntries] : n \in 0..MaxEvents}

FilterInit ==
    /\ pc = "filter_call"
    /\ raw_events \in Schedules
    /\ filtered = Running
    /\ SplitIdle /\ ExtractIdle /\ SendIdle /\ HttpIdle /\ RunIdle

FilterEvents ==
    /\ pc = "filter_call"
    /\ filtered' = filter_events(raw_events, DefaultInstructorId)
    /\ pc' = "filter_done"
    /\ UNCHANGED <<raw_events, splitVars, extractVars, sendVars, httpVars, runVars>>

FilterNext == FilterEvents

FilterSpec == FilterInit /\ [][FilterNext]_vars

\* The entry has the target instructor, is open and carries a start_time
\* that parses.
IsOpenTargetEntry(event) ==
    /\ event.instructor = DefaultInstructorId
    /\ event.closed_at = None
    /\ event.start_time # None
    /\ event.start_time # Some(<<>>)
    /\ automation_parse_start_time(event.start_time[1]).kind = "returned"

\* The candidate filter_events makes of an entry.
CandidateOf(event) ==
    ScheduleEvent(event.token, automation_parse_start_time(event.start_time[1]).value)

\* The strictly increasing index sequences of length n into 1..m.
IncreasingIndexes(n, m) ==
    {f \in [1..n -> 1..m] : \A i \in 1..n : \A j \in 1..n : i < j => f[i] < f[j]}

\* C3: of the entries with the target instructor, null closed_at and a
\* start_time, one classified as weekday is rejected when its time of day
\* is at or before 19:00:00 and retained when it is strictly after; one
\* classified as holiday or weekend is retained at any time of day.
C3_WeekdayCutoff ==
    pc = "filter_done" /\ filtered.kind = "returned" =>
        \A i \in 1..Len(raw_events) :
            IsOpenTargetEntry(raw_events[i]) =>
                LET cand == CandidateOf(raw_events[i])
                    dt == cand.start_time
                    kept == \E k \in 1..Len(filtered.value) : filtered.value[k] = cand
                IN  IF Weekday(dt) <= 4 /\ DateOf(dt) \notin BrHolidays("SP", dt.year)
                    THEN kept <=> (TimeOfDay(dt) > 19 * 3600)
                    ELSE kept

\* A weekday entry at exactly 19:00:00 was rejected next to one at 19:00:01
\* that was retained.
C3_Witness ==
    /\ pc = "filter_done"
    /\ filtered.kind = "returned"
    /\ Len(raw_events) = 2
    /\ IsOpenTargetEntry(raw_events[1]) /\ IsOpenTargetEntry(raw_events[2])
    /\ CandidateOf(raw_events[1]).start_time = At(Friday, 19, 0, 0)
    /\ CandidateOf(raw_events[2]).start_time = At(Friday, 19, 0, 1)
    /\ filtered.value = <<CandidateOf(raw_events[2])>>

\* C4: the list filter_events returns is a subsequence of its input, in
\* the input's order, made only of entries with the target instructor and
\* a null closed_at.
C4_OpenTargetSubsequence ==
    pc = "filter_done" /\ filtered.kind = "returned" =>
        \E f \in IncreasingIndexes(Len(filtered.value), Len(raw_events)) :
            \A k \in 1..Len(filtered.value) :
                /\ raw_events[f[k]].instructor = DefaultInstructorId
                /\ raw_events[f[k]].closed_at = None
                /\ IsOpenTargetEntry(raw_events[f[k]])
                /\ filtered.value[k] = CandidateOf(raw_events[f[k]])

\* Two different entries were retained, in the order of the input.
C4_Witness ==
    /\ pc = "filter_done"
    /\ filtered.kind = "returned"
    /\ Len(filtered.value) = 2
    /\ filtered.value[1] # filtered.value[2]
    /\ filtered.value[1] = CandidateOf(raw_events[1])

(***************************************************************************)
(* extract_available_spots.  A payload is a record of the fields of the    *)
(* event detail; a seat of map_spots has a code and the optional fields    *)
(* bookings and maintenance.  A spot is a record with exactly the keys of  *)
(* the dict the function builds.                                           *)
(***************************************************************************)

\* dict.get(key): None when the dict has no such key.
Get(d, key) == IF key \in DOMAIN d THEN d[key] ELSE None

\* " ".join(part for part in (first_name, last_name) if part); the names of
\* the model carry no outer blanks, so the final strip() changes nothing.
JoinName(first_name, last_name) ==
    IF first_name # "" /\ last_name # "" THEN first_name \o " " \o last_name
    ELSE IF first_name # "" THEN first_name
    ELSE last_name

\* spot.get("bookings", []) and spot.get("maintenance", False)
BookingsOf(spot) == IF spot.bookings = None THEN <<>> ELSE spot.bookings[1]
MaintenanceOf(spot) == IF spot.maintenance = None THEN FALSE ELSE spot.maintenance[1]

\* if bookings or maintenance: continue
SeatIsTakenBookingsOnly(spot) == BookingsOf(spot) # <<>>
SeatIsTaken(spot) == BookingsOf(spot) # <<>> \/ MaintenanceOf(spot)

AvailableSpot(payload, spot) ==
    LET detail == IF payload.instructor_detail = None
                  THEN [nickname |-> None, first_name |-> "", last_name |-> "",
                        tagline |-> None]
                  ELSE payload.instructor_detail[1]
    IN  [token |-> payload.token,
         spot_code |-> spot.code,
         event_name |-> payload.name,
         event_hour |-> payload.event_hour,
         duration_time |-> payload.duration_time,
         instructor_nickname |-> detail.nickname,
         instructor_name |-> JoinName(detail.first_name, detail.last_name),
         instructor_tagline |-> detail.tagline]

RECURSIVE ExtractLoop(_, _, _)
ExtractLoop(payload, i, acc) ==
    IF i > Len(payload.map_spots) THEN acc
    ELSE LET spot == payload.map_spots[i] IN
         IF SeatIsTaken(spot)
         THEN ExtractLoop(payload, i + 1, acc)
         ELSE ExtractLoop(payload, i + 1, Append(acc, AvailableSpot(payload, spot)))

extract_available_spots(payload) == ExtractLoop(payload, 1, <<>>)

(***************************************************************************)
(* The detail payloads of the model: every combination of bookings         *)
(* (absent, empty, one booking) and maintenance (absent, false, true) on   *)
(* up to MaxSeats seats.                                                   *)
(***************************************************************************)
MaxSeats == 2

Seats ==
    [code : {"A1", "B2"},
     bookings : {None, Some(<<>>), Some(<<"booking">>)},
     maintenance : {None, Some(FALSE), Some(TRUE)}]

SeatMaps == UNION {[1..n -> Seats] : n \in 0..MaxSeats}

InstructorDetails ==
    {None,
     Some([nickname |-> Some("Lu"), first_name |-> "Luiza", last_name |-> "Prado",
           tagline |-> None])}

EventHour2000 == <<"2", "0", ":", "0", "0">>

Payload(tok, detail, map_spots) ==
    [token |-> tok, name |-> Some("Bike"), event_hour |-> Some(EventHour2000),
     duration_time |-> Some(45), instructor_detail |-> detail,
     map_spots |-> map_spots]

ExtractInit ==
    /\ pc = "extract_call"
    /\ event_payload \in {Payload("e1", detail, map_spots) :
                            detail \in InstructorDetails, map_spots \in SeatMaps}
    /\ available_spots = <<>>
    /\ SplitIdle /\ FilterIdle /\ SendIdle /\ HttpIdle /\ RunIdle

ExtractAvailableSpots ==
    /\ pc = "extract_call"
    /\ available_spots' = extract_available_spots(event_payload)
    /\ pc' = "extract_done"
    /\ UNCHANGED <<event_payload, splitVars, filterVars, sendVars, httpVars, runVars>>

ExtractNext == ExtractAvailableSpots

ExtractSpec == ExtractInit /\ [][ExtractNext]_vars

\* The seat is free: no booking (or no bookings field) and not under
\* maintenance (or no maintenance field).
SeatIsFree(spot) ==
    /\ spot.bookings \in {None, Some(<<>>)}
    /\ spot.maintenance \in {None, Some(FALSE)}

\* The seats of a seat map that are free, in the map's order.
RECURSIVE FreeCodes(_)
FreeCodes(map_spots) ==
    IF map_spots = <<>> THEN <<>>
    ELSE (IF SeatIsFree(map_spots[1]) THEN <<map_spots[1].code>> ELSE <<>>)
         \o FreeCodes(Tail(map_spots))

\* C5: extract_available_spots emits one spot for a seat if and only if the
\* seat's bookings are empty or absent and its maintenance flag is false or
\* absent, and the spots keep the order of map_spots.
C5_FreeSeatsOnly ==
    pc = "extract_done" =>
        /\ Len(available_spots) = Len(FreeCodes(event_payload.map_spots))
        /\ \A k \in 1..Len(available_spots) :
              /\ available_spots[k].spot_code = FreeCodes(event_payload.map_spots)[k]
              /\ available_spots[k].token = event_payload.token

\* A free seat followed by a seat that has no booking but is under
\* maintenance: only the first was emitted.
C5_Witness ==
    /\ pc = "extract_done"
    /\ Len(event_payload.map_spots) = 2
    /\ event_payload.map_spots[1].bookings = Some(<<>>)
    /\ event_payload.map_spots[1].maintenance = Some(FALSE)
    /\ event_payload.map_spots[2].bookings = Some(<<>>)
    /\ event_payload.map_spots[2].maintenance = Some(TRUE)
    /\ Len(available_spots) = 1
    /\ available_spots[1].spot_code = event_payload.map_spots[1].code

(***************************************************************************)
(* telegram_notification.py: format_spot_summary.  The summary is modelled *)
(* by the lines of its plain text; the HTML rendering has the same lines   *)
(* with markup and escaping.  The lines of one event block stand together  *)
(* as one record holding what they print.  The texts are written without  *)
(* their accents, emoji and box-drawing characters.                        *)
(***************************************************************************)

\* Python's truth value of an optional text: None and "" are false.
Truthy(opt) == opt # None /\ opt[1] # <<>>

\* The code points of the characters that occur in the texts compared.
CharOrd(c) ==
    CASE c = "-" -> 45
      [] IsDigit(c) -> 48 + DigitVal(c)
      [] c = ":" -> 58
      [] c = "T" -> 84
      [] c = "a" -> 97
      [] c = "b" -> 98
      [] c = "d" -> 100
      [] OTHER -> 0

\* a < b for str: by code point, a proper prefix first.
RECURSIVE StrLess(_, _)
StrLess(a, b) ==
    IF b = <<>> THEN FALSE
    ELSE IF a = <<>> THEN TRUE
    ELSE IF a[1] = b[1] THEN StrLess(Tail(a), Tail(b))
    ELSE CharOrd(a[1]) < CharOrd(b[1])

\* item.get("start_time") or item.get("event_hour") or ""
SortKey(spot) ==
    IF Truthy(Get(spot, "start_time")) THEN Get(spot, "start_time")[1]
    ELSE IF Truthy(Get(spot, "event_hour")) THEN Get(spot, "event_hour")[1]
    ELSE <<>>

\* sorted(list(spots), key=...): stable, so a spot goes after the spots
\* already placed whose key is not greater.
RECURSIVE InsertByKey(_, _)
InsertByKey(sorted, spot) ==
    IF sorted = <<>> THEN <<spot>>
    ELSE IF StrLess(SortKey(spot), SortKey(sorted[Len(sorted)]))
         THEN Append(InsertByKey(SubSeq(sorted, 1, Len(sorted) - 1), spot),
                     sorted[Len(sorted)])
         ELSE Append(sorted, spot)

RECURSIVE SortedSpots(_)
SortedSpots(spots) ==
    IF spots = <<>> THEN <<>>
    ELSE InsertByKey(SortedSpots(SubSeq(spots, 1, Len(spots) - 1)), spots[Len(spots)])

\* telegram_notification._parse_start_time: None for a missing or empty
\* value and for one that does not parse.
notification_parse_start_time(value) ==
    IF ~Truthy(value) THEN None
    ELSE IF FromIsoFormat(value[1]).kind = "raised" THEN None
    ELSE Some(FromIsoFormat(value[1]).value)

\* start_dt.date().isoformat() if start_dt else "sem-data": the date, or
\* None for the bucket of the spots without a date.
DayKey(start_dt) == IF start_dt = None THEN None ELSE Some(DateOf(start_dt[1]))

\* The four parts of event_key, None standing for the part's default text.
EventKey(spot) ==
    <<Get(spot, "token"),
      IF Truthy(Get(spot, "start_time")) THEN Get(spot, "start_time") ELSE None,
      IF Truthy(Get(spot, "event_hour")) THEN Get(spot, "event_hour") ELSE None,
      Get(spot, "event_name")>>

IndexOfDay(days, day_key) ==
    IF \E i \in 1..Len(days) : days[i].day_key = day_key
    THEN CHOOSE i \in 1..Len(days) : days[i].day_key = day_key
    ELSE 0

IndexOfEvent(events, event_key) ==
    IF \E i \in 1..Len(events) : events[i].event_key = event_key
    THEN CHOOSE i \in 1..Len(events) : events[i].event_key = event_key
    ELSE 0

\* Lines 146-171, one spot: days is day_order with grouped_by_day, each day
\* holding its event groups in insertion order.
AddToEvents(events, spot, start_dt) ==
    LET event_key == EventKey(spot)
        at == IndexOfEvent(events, event_key)
    IN  IF at = 0
        THEN Append(events, [event_key |-> event_key, spots |-> <<spot>>,
                             start_dt |-> start_dt])
        ELSE [events EXCEPT ![at] =
                 [event_key |-> event_key,
                  spots |-> Append(events[at].spots, spot),
                  start_dt |-> IF events[at].start_dt = None /\ start_dt # None
                               THEN start_dt ELSE events[at].start_dt]]

AddToDays(days, spot) ==
    LET start_dt == notification_parse_start_time(Get(spot, "start_time"))
        day_key == DayKey(start_dt)
        at == IndexOfDay(days, day_key)
    IN  IF at = 0
        THEN Append(days, [day_key |-> day_key,
                           events |-> AddToEvents(<<>>, spot, start_dt)])
        ELSE [days EXCEPT ![at] =
                 [day_key |-> day_key,
                  events |-> AddToEvents(days[at].events, spot, start_dt)]]

RECURSIVE GroupByDay(_, _, _)
GroupByDay(spots_list, i, days) ==
    IF i > Len(spots_list) THEN days
    ELSE GroupByDay(spots_list, i + 1, AddToDays(days, spots_list[i]))

WEEKDAY_LABELS ==
    <<"Segunda-feira", "Terca-feira", "Quarta-feira", "Quinta-feira",
      "Sexta-feira", "Sabado", "Domingo">>

Pad2(n) == IF n < 10 THEN "0" \o ToString(n) ELSE ToString(n)
Pad4(n) == IF n < 10 THEN "000" \o ToString(n)
           ELSE IF n < 100 THEN "00" \o ToString(n)
           ELSE IF n < 1000 THEN "0" \o ToString(n)
           ELSE ToString(n)

\* start_dt.strftime("%d/%m/%Y")
DateLabel(dt) == Pad2(dt.day) \o "/" \o Pad2(dt.month) \o "/" \o Pad4(dt.year)

\* Lines 189-199: the header of a day, from its first event group.
UndatedHeaderText == "Data nao informada"
HeaderText(day) ==
    LET start_dt == day.events[1].start_dt
    IN  IF start_dt = None
        THEN UndatedHeaderText
        ELSE DateLabel(start_dt[1]) \o " (" \o WEEKDAY_LABELS[Weekday(start_dt[1]) + 1] \o ")"

TextLine(text) == [kind |-> "text", text |-> text]
HeaderLine(text) == [kind |-> "header", text |-> text]

\* [code for code in (spot.get("spot_code") ...) if code]
RECURSIVE BikeCodes(_)
BikeCodes(spots) ==
    IF spots = <<>> THEN <<>>
    ELSE (IF Get(spots[1], "spot_code") # "" THEN <<Get(spots[1], "spot_code")>> ELSE <<>>)
         \o BikeCodes(Tail(spots))

\* Lines 214-278: the block of one event group.  hour_label is event_hour,
\* else the start's HH:MM, else None for its default text; the instructor
\* label and the duration are kept as the representative spot gives them.
EventBlock(event_group) ==
    LET representative_spot == event_group.spots[1]
        start_dt == event_group.start_dt
        event_hour == Get(representative_spot, "event_hour")
    IN  [kind |-> "event",
         token |-> Get(representative_spot, "token"),
         hour_label |-> IF Truthy(event_hour) THEN event_hour
                        ELSE IF start_dt # None
                             THEN Some(Digits2(start_dt[1].hour) \o <<":">>
                                       \o Digits2(start_dt[1].minute))
                             ELSE None,
         duration |-> Get(representative_spot, "duration_time"),
         event_name |-> Get(representative_spot, "event_name"),
         instructor_nickname |-> Get(representative_spot, "instructor_nickname"),
         instructor_name |-> Get(representative_spot, "instructor_name"),
         tagline |-> Get(representative_spot, "instructor_tagline"),
         bikes |-> BikeCodes(event_group.spots)]

RECURSIVE EventLines(_, _)
EventLines(events, index) ==
    IF index > Len(events) THEN <<>>
    ELSE (IF index > 1 THEN <<TextLine("--------------"), TextLine("")>> ELSE <<>>)
         \o <<EventBlock(events[index]), TextLine("")>>
         \o EventLines(events, index + 1)

RECURSIVE DayLines(_, _)
DayLines(days, i) ==
    IF i > Len(days) THEN <<>>
    ELSE <<HeaderLine(HeaderText(days[i]))>>
         \o EventLines(days[i].events, 1)
         \o <<TextLine("")>>
         \o DayLines(days, i + 1)

NoSpotsMessage == "Nenhuma vaga disponivel encontrada no periodo consultado."

format_spot_summary(spots) ==
    LET spots_list == SortedSpots(spots)
    IN  IF spots_list = <<>>
        THEN <<TextLine(NoSpotsMessage)>>
        ELSE <<TextLine("Vagas de aula liberadas!"), TextLine(""),
               TextLine("Confira as oportunidades nas proximas duas semanas:"),
               TextLine("")>>
             \o DayLines(GroupByDay(spots_list, 1, <<>>), 1)
             \o <<TextLine("Boas pedaladas!")>>

(***************************************************************************)
(* automation.py: run_automation with fetch_schedule,                      *)
(* collect_available_spots and fetch_event_details, and the callers of     *)
(* run_automation.  Each GET ends in a response the server chooses or in   *)
(* an error that the code lets propagate.                                  *)
(***************************************************************************)

\* pages: Sequence[int] = (1, 2)
Pages == <<1, 2>>

MaxPageEvents == 1

Entry(instructor, closed_at, start_time, tok) ==
    [instructor |-> instructor, closed_at |-> closed_at,
     start_time |-> start_time, token |-> tok]

\* What a schedule page may hold: the entry of the end-to-end scenario (the
\* target instructor, open, Friday 14/11/2025 at 20:00), the same before
\* the cutoff, a Sunday class, another instructor's class and an entry
\* whose start_time is not a timestamp.
RunEntries ==
    {Entry(DefaultInstructorId, None, Some(IsoFormat(At(Friday, 20, 0, 0))), "e1"),
     Entry(DefaultInstructorId, None, Some(IsoFormat(At(Friday, 18, 0, 0))), "e1"),
     Entry(DefaultInstructorId, None, Some(IsoFormat(At(Sunday, 8, 0, 0))), "e2"),
     Entry(999, None, Some(IsoFormat(At(Friday, 20, 0, 0))), "e2"),
     Entry(DefaultInstructorId, None, Some(<<"b", "a", "d">>), "e1")}

PageResults == UNION {[1..n -> RunEntries] : n \in 0..MaxPageEvents}

FreeSeat(code) == [code |-> code, bookings |-> Some(<<>>), maintenance |-> Some(FALSE)]
BookedSeat(code) == [code |-> code, bookings |-> Some(<<"booking">>), maintenance |-> Some(FALSE)]

\* What the detail endpoint may answer for a token.
DetailPayloads(tok) ==
    {Payload(tok, None, map_spots) :
        map_spots \in {<<>>, <<FreeSeat("A1")>>, <<BookedSeat("A1"), FreeSeat("B2")>>}}

ScheduleOutcomes == {"ok", "http_error", "results_not_a_list"}
DetailOutcomes == {"ok", "http_error"}

ScheduleRequest(page) == [kind |-> "schedule", page |-> page, token |-> ""]
DetailRequest(tok) == [kind |-> "detail", page |-> 0, token |-> tok]

\* A Python list, as the value a call returns.
PyList(items) == [type |-> "list", items |-> items]

\* obj.name for an attribute that is not one of list's.
GetAttr(obj, name) ==
    IF obj.type = "list" THEN Raised("AttributeError") ELSE Returned(obj[name])

\* all_spots.extend(extract_available_spots(payload))
ExtendFront(spots, more) == more \o spots
Extend(spots, more) == spots \o more

Init ==
    /\ pc = "run_call"
    /\ session \in Sessions
    /\ internal_session = "None"
    /\ requests = <<>>
    /\ responses = <<>>
    /\ result = Running
    /\ raw_events = <<>>
    /\ filtered = Running
    /\ all_spots = <<>>
    /\ summary = <<>>
    /\ token = <<>> /\ chat_id = <<>>
    /\ SplitIdle /\ ExtractIdle

\* run_automation, line 233: session or requests.Session()
RunCall ==
    /\ pc = "run_call"
    /\ internal_session' = AcquireSession(session)
    /\ pc' = "fetch_schedule"
    /\ UNCHANGED <<session, requests, result, responses, token, chat_id,
                   splitVars, filterVars, extractVars, runVars>>

\* fetch_schedule, lines 88-104: one iteration of the loop over pages;
\* raw_events is aggregated_results.  An error leaves run_automation at
\* line 235, before the close of line 240.
FetchSchedulePage ==
    /\ pc = "fetch_schedule"
    /\ Len(requests) < Len(Pages)
    /\ LET page == Pages[Len(requests) + 1] IN
       /\ requests' = Append(requests, ScheduleRequest(page))
       /\ \E outcome \in ScheduleOutcomes :
            IF outcome = "ok"
            THEN /\ \E results \in PageResults : raw_events' = raw_events \o results
                 /\ pc' = IF Len(requests) + 1 = Len(Pages) THEN "filter" ELSE pc
                 /\ UNCHANGED result
            ELSE /\ pc' = "run_raised"
                 /\ result' = IF outcome = "http_error" THEN Raised("HTTPError")
                                                        ELSE Raised("TypeError")
                 /\ UNCHANGED raw_events
    /\ UNCHANGED <<session, internal_session, responses, token, chat_id, filtered,
                   splitVars, extractVars, runVars>>

\* run_automation, line 236: filter_events(schedule)
RunFilter ==
    /\ pc = "filter"
    /\ filtered' = filter_events(raw_events, DefaultInstructorId)
    /\ IF filtered'.kind = "raised"
       THEN pc' = "run_raised" /\ result' = filtered'
       ELSE pc' = "collect" /\ UNCHANGED result
    /\ UNCHANGED <<session, internal_session, requests, responses, token, chat_id,
                   raw_events, splitVars, extractVars, runVars>>

\* collect_available_spots, lines 223-225: one iteration of the loop over
\* the candidates, with fetch_event_details.
FetchDetail ==
    /\ pc = "collect"
    /\ Len(responses) < Len(filtered.value)
    /\ LET schedule_event == filtered.value[Len(responses) + 1] IN
       /\ requests' = Append(requests, DetailRequest(schedule_event.token))
       /\ \E outcome \in DetailOutcomes :
            IF outcome = "ok"
            THEN /\ \E payload \in DetailPayloads(schedule_event.token) :
                      /\ responses' = Append(responses, payload)
                      /\ all_spots' = Extend(all_spots, extract_available_spots(payload))
                 /\ UNCHANGED <<pc, result>>
            ELSE /\ pc' = "run_raised"
                 /\ result' = Raised("HTTPError")
                 /\ UNCHANGED <<responses, all_spots>>
    /\ UNCHANGED <<session, internal_session, token, chat_id, summary,
                   splitVars, filterVars, extractVars>>

\* Lines 227 and 239-242: the loop is over; the session is closed when the
\* run made it, and the list is returned.
RunReturn ==
    /\ pc = "collect"
    /\ Len(responses) = Len(filtered.value)
    /\ internal_session' = ReleaseSession(session, internal_session)
    /\ result' = Returned(PyList(all_spots))
    /\ pc' = "run_returned"
    /\ UNCHANGED <<session, requests, responses, token, chat_id,
                   splitVars, filterVars, extractVars, runVars>>

\* telegram_notification.main, lines 388-389: result = run_automation()
\* and then result.spots.
NotificationMain ==
    /\ pc = "run_returned"
    /\ session = "None"
    /\ LET spots == GetAttr(result.value, "spots") IN
       /\ spots.kind = "raised"
       /\ result' = spots
       /\ pc' = "main_raised"
    /\ UNCHANGED <<session, internal_session, requests, responses, token, chat_id,
                   splitVars, filterVars, extractVars, runVars>>

\* A caller that formats the list run_automation returned, as line 390 of
\* main means to do.
FormatReturnedSpots ==
    /\ pc = "run_returned"
    /\ summary' = format_spot_summary(result.value.items)
    /\ pc' = "formatted"
    /\ UNCHANGED <<all_spots, httpVars, responses, token, chat_id,
                   splitVars, filterVars, extractVars>>

Next ==
    \/ RunCall
    \/ FetchSchedulePage
    \/ RunFilter
    \/ FetchDetail
    \/ RunReturn
    \/ NotificationMain
    \/ FormatReturnedSpots

Spec == Init /\ [][Next]_vars

RunEnded == pc \in {"run_returned", "run_raised", "main_raised", "formatted"}

\* C6: a run called without a session of the caller's ends, on every exit
\* path, with the session it created closed.
C6_SessionClosedOnExit ==
    RunEnded /\ session = "None" => internal_session = "closed"

DetailRequests == SelectSeq(requests, LAMBDA r : r.kind = "detail")

RECURSIVE SpotsOf(_)
SpotsOf(payloads) ==
    IF payloads = <<>> THEN <<>>
    ELSE extract_available_spots(payloads[1]) \o SpotsOf(Tail(payloads))

\* C7: detail requests are issued one at a time, one per candidate and in
\* candidate order, and the spots are accumulated in that order; without
\* candidates none is issued; when the detail fetch of a candidate fails
\* no later one is issued and the run returns no spots.
C7_SequentialDetails ==
    /\ filtered.kind # "returned" => DetailRequests = <<>>
    /\ filtered.kind = "returned" =>
          /\ Len(DetailRequests) <= Len(filtered.value)
          /\ \A k \in 1..Len(DetailRequests) :
                DetailRequests[k].token = filtered.value[k].token
          /\ Len(responses) <= Len(DetailRequests)
          /\ Len(DetailRequests) <= Len(responses) + 1
          /\ all_spots = SpotsOf(responses)
    /\ pc \in {"run_returned", "formatted"} =>
          /\ Len(DetailRequests) = Len(filtered.value)
          /\ Len(responses) = Len(filtered.value)
          /\ result = Returned(PyList(SpotsOf(responses)))
    /\ pc = "run_raised" =>
          /\ result.kind = "raised"
          /\ result.value = <<>>
          /\ DetailRequests # <<>> => Len(DetailRequests) = Len(responses) + 1

\* Two candidates with different seat maps had their details fetched and
\* the run returned the spots of both.
C7_Witness ==
    /\ pc = "run_returned"
    /\ Len(DetailRequests) = 2
    /\ Len(extract_available_spots(responses[1])) = 1
    /\ Len(extract_available_spots(responses[2])) = 1
    /\ responses[1].map_spots # responses[2].map_spots
    /\ Len(result.value.items) = 2

\* The text of the last header at or before line i of the summary.
HeadingOver(lines, i) ==
    LET headers == {j \in 1..i : lines[j].kind = "header"}
    IN  IF headers = {} THEN ""
        ELSE lines[CHOOSE j \in headers : \A h \in headers : h <= j].text

\* The schedule and the detail of the end-to-end scenario.
EndToEndEntry ==
    Entry(DefaultInstructorId, None, Some(IsoFormat(At(Friday, 20, 0, 0))), "e1")
EndToEndPayload == Payload("e1", None, <<FreeSeat("A1")>>)

\* C9: every spot the run produces for a candidate stands in the summary
\* under the heading of the calendar date of that candidate's start_time;
\* in the end-to-end scenario the run produces exactly one spot and the
\* summary shows it under "14/11/2025 (Sexta-feira)".
C9_SpotsUnderStartDate ==
    pc = "formatted" =>
        /\ \A k \in 1..Len(filtered.value) :
              extract_available_spots(responses[k]) # <<>> =>
                 \E i \in 1..Len(summary) :
                    /\ summary[i].kind = "event"
                    /\ summary[i].token = filtered.value[k].token
                    /\ HeadingOver(summary, i) =
                          DateLabel(filtered.value[k].start_time) \o " ("
                          \o WEEKDAY_LABELS[Weekday(filtered.value[k].start_time) + 1]
                          \o ")"
        /\ raw_events = <<EndToEndEntry>> /\ responses = <<EndToEndPayload>> =>
              /\ Len(result.value.items) = 1
              /\ \E i \in 1..Len(summary) :
                    /\ summary[i].kind = "event"
                    /\ summary[i].bikes = <<"A1">>
                    /\ HeadingOver(summary, i) = "14/11/2025 (Sexta-feira)"

\* The four fields of a PipelineResult, with the elapsed time the
\* difference of the two timestamps.
IsPipelineResult(value) ==
    /\ value.type = "PipelineResult"
    /\ {"spots", "started_at", "finished_at", "elapsed_seconds"} \subseteq DOMAIN value
    /\ value.elapsed_seconds = value.finished_at - value.started_at

\* C10: a successful run returns a PipelineResult with the spots,
\* started_at, finished_at and elapsed_seconds = finished_at - started_at,
\* and the entry point that reads these fields completes without failure.
C10_PipelineResult ==
    /\ pc \in {"run_returned", "formatted"} => IsPipelineResult(result.value)
    /\ pc # "main_raised"

(***************************************************************************)
(* Specification of format_spot_summary: the spots are drawn from spots    *)
(* with and without a start_time, with an event_hour that is missing,      *)
(* early or late in the day, in every order.                               *)
(***************************************************************************)
MaxSpots == 2

EventHour0800 == <<"0", "8", ":", "0", "0">>
EventHour2030 == <<"2", "0", ":", "3", "0">>

\* A spot as extract_available_spots builds it, without a start_time.
UndatedSpot(tok, code, event_hour) ==
    [token |-> tok, spot_code |-> code, event_name |-> Some("Bike"),
     event_hour |-> event_hour, duration_time |-> Some(45),
     instructor_nickname |-> None, instructor_name |-> "",
     instructor_tagline |-> None]

\* The same spot carrying the start_time of its event.
DatedSpot(tok, code, event_hour, start_time) ==
    [token |-> tok, spot_code |-> code, event_name |-> Some("Bike"),
     event_hour |-> event_hour, duration_time |-> Some(45),
     instructor_nickname |-> None, instructor_name |-> "",
     instructor_tagline |-> None, start_time |-> Some(start_time)]

SpotHours == {None, Some(EventHour0800), Some(EventHour2030)}

SummarySpots ==
    {UndatedSpot("e0", code, hour) : code \in {"A1", "B2"}, hour \in SpotHours}
    \cup {DatedSpot("e1", code, hour, IsoFormat(At(Friday, 20, 0, 0))) :
             code \in {"A1", "B2"}, hour \in SpotHours}
    \cup {DatedSpot("e2", code, hour, IsoFormat(At(Sunday, 8, 0, 0))) :
             code \in {"A1", "B2"}, hour \in SpotHours}

SpotLists == UNION {[1..n -> SummarySpots] : n \in 0..MaxSpots}

FormatInit ==
    /\ pc = "format_call"
    /\ all_spots \in SpotLists
    /\ summary = <<>>
    /\ SplitIdle /\ FilterIdle /\ ExtractIdle /\ SendIdle /\ HttpIdle

FormatSpotSummary ==
    /\ pc = "format_call"
    /\ summary' = format_spot_summary(all_spots)
    /\ pc' = "format_done"
    /\ UNCHANGED <<all_spots, splitVars, filterVars, extractVars, sendVars, httpVars>>

FormatNext == FormatSpotSummary

FormatSpec == FormatInit /\ [][FormatNext]_vars

\* The texts of the header lines of a summary, in order.
RECURSIVE HeaderTexts(_)
HeaderTexts(lines) ==
    IF lines = <<>> THEN <<>>
    ELSE (IF lines[1].kind = "header" THEN <<lines[1].text>> ELSE <<>>)
         \o HeaderTexts(Tail(lines))

\* The calendar dates of the spots that carry a start_time.
SpotDates(spots) ==
    {DateOf(FromIsoFormat(spots[i].start_time[1]).value) :
        i \in {j \in 1..Len(spots) : "start_time" \in DOMAIN spots[j]}}

\* The headings of a set of dates, the earliest first.
RECURSIVE AscendingHeadings(_)
AscendingHeadings(dates) ==
    IF dates = {} THEN <<>>
    ELSE LET first == CHOOSE d \in dates :
                         \A e \in dates : ToOrdinal(d) <= ToOrdinal(e)
             dt == [year |-> first[1], month |-> first[2], day |-> first[3]]
         IN  <<DateLabel(dt) \o " (" \o WEEKDAY_LABELS[((ToOrdinal(first) + 6) % 7) + 1]
               \o ")">>
             \o AscendingHeadings(dates \ {first})

\* C11: for a non-empty spot list the summary has one group per calendar
\* date of the spots' start_time, in ascending date order, and the group of
\* the spots without a start_time comes after every dated group, whatever
\* the event_hour of the spots and their order in the input.
C11_UndatedGroupLast ==
    pc = "format_done" /\ all_spots # <<>> =>
        HeaderTexts(summary) =
            AscendingHeadings(SpotDates(all_spots))
            \o (IF \E i \in 1..Len(all_spots) : "start_time" \notin DOMAIN all_spots[i]
                THEN <<UndatedHeaderText>> ELSE <<>>)

\* C12: of a message longer than the limit no chunk is empty, so no empty
\* text is posted for it.
C12_NoEmptyChunk ==
    Len(message) > limit =>
        /\ \A i \in 1..Len(chunks) : chunks[i] # <<>>
        /\ \A i \in 1..Len(requests) : requests[i].text # <<>>

=============================================================================
